---- MODULE Spec2Model ----
(***************************************************************************)
(* Model of resources/lib/bossanova808/playback.py:                        *)
(*   - PlaybackList: the in-memory list of Playback records and its        *)
(*     backing JSON file (init, load_or_init, save_to_file, delete_file,   *)
(*     remove_playbacks_of_path, find_playback_by_path);                   *)
(*   - Playback.update_playback_details: source classification.            *)
(*                                                                         *)
(* File contents are sequences of JSON tokens.  A token is a record        *)
(* [k, d]: k is the token kind ("lb" = '[', "rb" = ']', "comma", "obj" = a *)
(* JSON object, "num" = a JSON number) and d the key/value pairs of an     *)
(* object.  A file that was cut short holds a proper prefix of the token   *)
(* sequence that was being written.                                        *)
(***************************************************************************)
EXTENDS Integers, Sequences, FiniteSets, TLC

\* ------------------------------------------------------------------ bounds
MaxLen == 2

\* ------------------------------------------------- Playback records, JSON
\* Python None
None == "<None>"
\* JSON null
JsonNull == "null"

\* the dataclass fields carried by the model (Playback has 24, all Optional,
\* all defaulting to None; two are enough to tell duplicates of a path apart)
Fields == {"path", "title"}

Paths == {"p1", "p2"}

\* the Playback objects the caller may put in the list: two of the same path
\* that differ in another field, and one of another path
Playbacks ==
    { [path |-> "p1", title |-> "t1"],
      [path |-> "p1", title |-> None],
      [path |-> "p2", title |-> "t1"] }

\* Playback(): every field defaults to None
default_playback == [f \in Fields |-> None]

NoPairs == [nil |-> "nil"]
LB == [k |-> "lb", d |-> NoPairs]
RB == [k |-> "rb", d |-> NoPairs]
COMMA == [k |-> "comma", d |-> NoPairs]
NUM == [k |-> "num", d |-> NoPairs]
Obj(pairs) == [k |-> "obj", d |-> pairs]

\* json.dumps of one attribute value
dumps_value(v) == IF v = None THEN JsonNull ELSE v
\* json.load of one attribute value
loads_value(j) == IF j = JsonNull THEN None ELSE j

\* json.dumps of p.__dict__: every attribute of the record, None as null
dumps_playback(p) == Obj([f \in DOMAIN p |-> dumps_value(p[f])])

RECURSIVE dumps_elements(_)
dumps_elements(l) ==
    IF l = <<>> THEN <<>>
    ELSE IF Len(l) = 1 THEN <<dumps_playback(l[1])>>
    ELSE <<dumps_playback(l[1]), COMMA>> \o dumps_elements(Tail(l))

\* PlaybackList.toJson
toJson(l) == <<LB>> \o dumps_elements(l) \o <<RB>>

IsValue(t) == t.k \in {"obj", "num"}

\* json.load: "array" with its elements, "other" for a JSON value that is not
\* an array, "invalid" for JSONDecodeError (zero-length file included)
IsArrayText(text) ==
    /\ Len(text) >= 2
    /\ text[1] = LB
    /\ text[Len(text)] = RB
    /\ \/ Len(text) = 2
       \/ /\ Len(text) % 2 = 1
          /\ \A i \in 2..(Len(text) - 1) :
                IF i % 2 = 0 THEN IsValue(text[i]) ELSE text[i] = COMMA

json_load(text) ==
    IF IsArrayText(text)
    THEN [kind |-> "array",
          elems |-> [i \in 1..((Len(text) - 1) \div 2) |-> text[2 * i]]]
    ELSE IF Len(text) = 1 /\ IsValue(text[1])
    THEN [kind |-> "other", elems |-> <<>>]
    ELSE [kind |-> "invalid", elems |-> <<>>]

\* Playback(**playback) succeeds for a mapping whose keys are all fields
Constructible(t) == t.k = "obj" /\ DOMAIN t.d \subseteq Fields

\* Playback(**playback): given keys set, the others left at their default
new_playback_path_only(t) ==
    [f \in Fields |-> IF f = "path" /\ f \in DOMAIN t.d THEN loads_value(t.d[f])
                      ELSE default_playback[f]]
new_playback(t) ==
    [f \in Fields |-> IF f \in DOMAIN t.d THEN loads_value(t.d[f])
                      ELSE default_playback[f]]

\* number of elements appended by the for loop before Playback(**playback)
\* raises (all of them when none raises)
GoodPrefix(elems) ==
    IF \A i \in 1..Len(elems) : Constructible(elems[i]) THEN Len(elems)
    ELSE (CHOOSE i \in 1..Len(elems) :
            /\ ~Constructible(elems[i])
            /\ \A j \in 1..(i - 1) : Constructible(elems[j])) - 1

\* the loop, were it to append nothing unless every element can be built
appended_all_or_nothing(l, elems) ==
    IF GoodPrefix(elems) < Len(elems) THEN l
    ELSE l \o [i \in 1..Len(elems) |-> new_playback(elems[i])]

\* the list after the loop "for playback in switchback_list_json: append"
appended(l, elems) ==
    l \o [i \in 1..GoodPrefix(elems) |-> new_playback(elems[i])]

loop_raises(elems) == GoodPrefix(elems) < Len(elems)

\* load_or_init calls init(): FileNotFoundError, JSONDecodeError, or a JSON
\* value that is not a list
needs_init_unchecked(exists, j) == ~exists \/ j.kind = "invalid"
needs_init(exists, j) == ~exists \/ j.kind = "invalid" \/ j.kind # "array"

\* "self.list = []" at the top of load_or_init
cleared_keep(l) == l
cleared(l) == <<>>

\* [x for x in self.list if x.path != path]
RECURSIVE remove_first_only(_, _)
remove_first_only(l, path) ==
    IF l = <<>> THEN <<>>
    ELSE IF l[1].path = path THEN Tail(l)
    ELSE <<l[1]>> \o remove_first_only(Tail(l), path)

RECURSIVE remove_others(_, _)
remove_others(l, path) ==
    IF l = <<>> THEN <<>>
    ELSE IF l[1].path = path
         THEN <<l[1]>> \o remove_others(Tail(l), path)
         ELSE remove_others(Tail(l), path)

RECURSIVE remove_playbacks_of_path(_, _)
remove_playbacks_of_path(l, path) ==
    IF l = <<>> THEN <<>>
    ELSE IF l[1].path # path
         THEN <<l[1]>> \o remove_playbacks_of_path(Tail(l), path)
         ELSE remove_playbacks_of_path(Tail(l), path)

\* find_playback_by_path: <<p>> for the Playback returned, <<>> for None
RECURSIVE find_last(_, _)
find_last(l, path) ==
    IF l = <<>> THEN <<>>
    ELSE IF l[Len(l)].path = path THEN <<l[Len(l)]>>
    ELSE find_last(SubSeq(l, 1, Len(l) - 1), path)

RECURSIVE find_playback_by_path(_, _)
find_playback_by_path(l, path) ==
    IF l = <<>> THEN <<>>
    ELSE IF l[1].path = path THEN <<l[1]>>
    ELSE find_playback_by_path(Tail(l), path)

\* os.path.dirname(self.file): the list lives under the addon profile
\* directory, as in PlaybackList([], translatePath(join(PROFILE, ...)))
directory_name == "profile"
SystemTemp == "systemtemp"

\* the dir= argument of NamedTemporaryFile in save_to_file
temp_dir_of(d) == IF d # "" THEN d ELSE SystemTemp


\* ------------------------------------------- Playback source classification
\* A locator is a sequence of chunks of text; the chunks below are the ones
\* the classification looks for, in the spellings the model feeds it.
lower_chunk(c) ==
    CASE c = "PVR://" -> "pvr://"
      [] c = "Plugin://" -> "plugin://"
      [] c = "HTTP://" -> "http://"
      [] c = "LocalHost" -> "localhost"
      [] OTHER -> c

\* str.lower()
lower(s) == [i \in 1..Len(s) |-> lower_chunk(s[i])]

\* str.startswith(prefix)
startswith(s, prefix) ==
    /\ Len(s) >= Len(prefix)
    /\ SubSeq(s, 1, Len(prefix)) = prefix

startswith_any(s, prefixes) == \E x \in prefixes : startswith(s, x)

\* the patterns a chunk contains as a substring
substrings(c) ==
    CASE c = "plugin://" -> {"plugin://", "plugin"}
      [] OTHER -> {c}

\* pattern in s
contains(s, pattern) == \E i \in 1..Len(s) : pattern \in substrings(s[i])

PluginScheme == <<"plugin://">>
RecordingsPrefix == <<"pvr://", "recordings/">>
HttpSchemes == {<<"http://">>, <<"https://">>}
webdav_patterns == {"/dav/", "webdav", ".nextcloud.", "owncloud",
                    "/remote.php/", "dropbox", "googledrive", "onedrive"}
addon_indicators == {"plugin", "addon"}
loopback_hosts == {"127.0.0.1", "localhost", "[::1]"}

\* Optional[int]: <<>> is None, <<n>> the integer n
NoInt == <<>>
Digits == {"0", "1", "2", "3", "4", "5", "6", "7", "8", "9"}
digit_value(c) ==
    CASE c = "0" -> 0 [] c = "1" -> 1 [] c = "2" -> 2 [] c = "3" -> 3
      [] c = "4" -> 4 [] c = "5" -> 5 [] c = "6" -> 6 [] c = "7" -> 7
      [] c = "8" -> 8 [] c = "9" -> 9

RECURSIVE digits_value(_)
digits_value(s) ==
    IF s = <<>> THEN 0
    ELSE 10 * digits_value(SubSeq(s, 1, Len(s) - 1)) + digit_value(s[Len(s)])

all_digits(s) == s # <<>> /\ \A i \in 1..Len(s) : s[i] \in Digits

\* int(label) if label else None, ValueError giving None; a label is the
\* sequence of its characters
int_or_none(label) ==
    IF label = <<>> THEN NoInt
    ELSE IF all_digits(label) THEN <<digits_value(label)>>
    ELSE IF label[1] \in {"-", "+"} /\ all_digits(Tail(label))
         THEN <<(IF label[1] = "-" THEN -1 ELSE 1) * digits_value(Tail(label))>>
    ELSE NoInt

\* truth value of an Optional[int] in "if self.dbid:"
truthy(x) == x # NoInt /\ x[1] # 0

\* Playback._is_addon_playback
is_addon_playback(path, sig) ==
    LET path_lower == lower(path)
        listitem_path_lower == lower(sig.listitem_path)
        container_path_lower == lower(sig.container_path)
    IN \/ startswith(path_lower, PluginScheme)
       \/ startswith(listitem_path_lower, PluginScheme)
       \/ sig.addon_id # ""
       \/ startswith(container_path_lower, PluginScheme)
       \/ /\ startswith_any(path_lower, HttpSchemes)
          /\ \/ /\ ~\E p \in webdav_patterns : contains(path_lower, p)
                /\ \E x \in addon_indicators : contains(path_lower, x)
             \/ sig.addon_id # ""
             \/ startswith(container_path_lower, PluginScheme)
             \/ \E h \in loopback_hosts : contains(path_lower, h)

\* the if/elif chain that sets self.source in update_playback_details
source_of(dbid, path, sig) ==
    IF truthy(dbid) THEN "kodi_library"
    ELSE IF sig.playing_tv \/ sig.playing_radio THEN "pvr_live"
    ELSE IF startswith(lower(path), RecordingsPrefix)
         THEN "pvr_recording"
    ELSE IF is_addon_playback(path, sig) THEN "addon"
    ELSE "file"

\* a path that is None or '' ("self.path or ''" reads both as '')
NoPath == <<>>

\* Playback(): a fresh record, every field None
fresh_playback ==
    [path |-> NoPath, source |-> None, dbid |-> NoInt,
     totaltime |-> NoInt, duration |-> NoInt, resumetime |-> NoInt,
     type |-> None, tvshowdbid |-> NoInt, totalseasons |-> NoInt]

\* send_kodi_json: the decoded reply, None (<<>>) when json.loads fails
send_kodi_json(reply) == IF reply.parses THEN <<reply>> ELSE <<>>

\* "if not properties_json or 'result' not in properties_json"
no_result(properties_json) ==
    properties_json = <<>> \/ ~properties_json[1].has_result

\* properties.get('limits', {}).get('total') raises AttributeError when
\* properties, or the value under 'limits', is not a dict
get_raises(properties) ==
    \/ properties.kind # "dict"
    \/ properties.limits \notin {"absent", "dict"}

\* isinstance(total_limit, int)
total_limit_of(properties) ==
    IF properties.limits = "dict" /\ properties.total_kind = "int"
    THEN <<properties.total>> ELSE NoInt

\* lines 252-279: the seasons lookup of a record whose tvshowdbid is
\* tvshowdbid and whose totalseasons was old; what totalseasons is afterwards
\* and the exception that leaves update_playback_details, if any
seasons_lookup(tvshowdbid, old, reply) ==
    LET properties_json == send_kodi_json(reply)
        properties == properties_json[1].result
        total_limit == total_limit_of(properties)
    IN IF ~truthy(tvshowdbid) THEN [totalseasons |-> old, exc |-> "none"]
       ELSE IF no_result(properties_json)
            THEN [totalseasons |-> NoInt, exc |-> "none"]
       ELSE IF properties_json[1].has_error
            THEN [totalseasons |-> NoInt, exc |-> "none"]
       ELSE IF get_raises(properties)
            THEN [totalseasons |-> old, exc |-> "AttributeError"]
       ELSE IF total_limit = NoInt /\ properties.seasons # NoInt
            THEN [totalseasons |-> properties.seasons, exc |-> "none"]
       ELSE [totalseasons |-> total_limit, exc |-> "none"]

\* the MEDIA TYPE step's self.tvshowdbid
tvshowdbid_of(p, sig) ==
    IF sig.tvshowtitle # "" THEN int_or_none(sig.tvshowdbid_label)
    ELSE p.tvshowdbid

\* update_playback_details: locator, timing, dbid, source, media type and
\* season count of the record p under the signals sig
update_playback_details(p, sig) ==
    LET timed == p.source # "pvr_live"
        dbid == int_or_none(sig.dbid_label)
        source == source_of(dbid, sig.item_path, sig)
        episode == sig.tvshowtitle # ""
        tvshowdbid == tvshowdbid_of(p, sig)
    IN [path |-> sig.item_path,
        totaltime |-> IF timed THEN <<sig.total_time>> ELSE p.totaltime,
        duration |-> IF timed THEN <<sig.total_time>> ELSE p.duration,
        resumetime |-> IF timed THEN <<sig.time>> ELSE p.resumetime,
        dbid |-> dbid,
        source |-> source,
        type |-> IF episode THEN "episode"
                 ELSE IF truthy(dbid) THEN "movie" ELSE "video",
        tvshowdbid |-> tvshowdbid,
        totalseasons |->
            seasons_lookup(tvshowdbid, p.totalseasons, sig.reply).totalseasons]

\* the exception update_playback_details ends with, "none" when it returns
update_raises(p, sig) ==
    seasons_lookup(tvshowdbid_of(p, sig), p.totalseasons, sig.reply).exc

\* what VideoLibrary.GetSeasons may answer. result: what lies under 'result'
\* (kind dict / list / null; for a dict, what lies under 'limits', the kind
\* and value of 'total', and the number of entries under 'seasons' if any)
Result(kind, limits, total_kind, total, seasons) ==
    [kind |-> kind, limits |-> limits, total_kind |-> total_kind,
     total |-> total, seasons |-> seasons]
Reply(parses, has_result, has_error, result) ==
    [parses |-> parses, has_result |-> has_result, has_error |-> has_error,
     result |-> result]
NoResult == Result("null", "absent", "absent", 0, NoInt)
GoodReply == Reply(TRUE, TRUE, FALSE, Result("dict", "dict", "int", 2, <<2>>))
Replies ==
    { GoodReply,
      \* not JSON at all
      Reply(FALSE, FALSE, FALSE, NoResult),
      \* {"id": ...}
      Reply(TRUE, FALSE, FALSE, NoResult),
      \* {"error": {...}}
      Reply(TRUE, FALSE, TRUE, NoResult),
      \* {"error": {...}, "result": {...}}
      Reply(TRUE, TRUE, TRUE, Result("dict", "dict", "int", 2, <<2>>)),
      \* {"result": null}
      Reply(TRUE, TRUE, FALSE, NoResult),
      \* {"result": []}
      Reply(TRUE, TRUE, FALSE, Result("list", "absent", "absent", 0, NoInt)),
      \* {"result": {"limits": null, "seasons": [..]}}
      Reply(TRUE, TRUE, FALSE, Result("dict", "null", "absent", 0, <<1>>)),
      \* {"result": {"limits": {"total": 3}}}
      Reply(TRUE, TRUE, FALSE, Result("dict", "dict", "int", 3, NoInt)),
      \* {"result": {"seasons": [.]}}
      Reply(TRUE, TRUE, FALSE, Result("dict", "absent", "absent", 0, <<1>>)),
      \* {"result": {"limits": {}, "seasons": []}}
      Reply(TRUE, TRUE, FALSE, Result("dict", "dict", "absent", 0, <<0>>)),
      \* {"result": {"limits": {"total": "2"}}}
      Reply(TRUE, TRUE, FALSE, Result("dict", "dict", "str", 2, NoInt)),
      \* {"result": {}}
      Reply(TRUE, TRUE, FALSE, Result("dict", "absent", "absent", 0, NoInt)) }

\* the signals the host may report while an item plays
ItemPaths ==
    { <<>>,
      <<"/", "movie.mkv">>,
      <<"PVR://", "recordings/", "1.pvr">>,
      <<"Plugin://", "video.x/">>,
      <<"http://", "host/", "plugin", "/x">>,
      <<"HTTP://", "LocalHost", "/x">>,
      <<"https://", "host/", "webdav", "/", "addon">> }
DbidLabels == { <<>>, <<"0">>, <<"a", "b">>, <<"1", "2">> }
ListItemPaths == { <<>>, <<"Plugin://", "y">> }
ContainerPaths == { <<>>, <<"plugin://", "z">> }
AddonIds == {"", "plugin.video.x"}
ShowTitles == {"", "Show"}
ShowDbidLabels == { <<>>, <<"3">> }
PlayerTotalTime == 100
PlayerTimes == {42}

Signals ==
    [item_path : ItemPaths, dbid_label : DbidLabels,
     playing_tv : BOOLEAN, playing_radio : BOOLEAN,
     listitem_path : ListItemPaths, addon_id : AddonIds,
     container_path : ContainerPaths,
     tvshowtitle : ShowTitles, tvshowdbid_label : ShowDbidLabels,
     total_time : {PlayerTotalTime}, time : PlayerTimes, reply : Replies]

NoSignals ==
    [item_path |-> <<>>, dbid_label |-> <<>>,
     playing_tv |-> FALSE, playing_radio |-> FALSE,
     listitem_path |-> <<>>, addon_id |-> "", container_path |-> <<>>,
     tvshowtitle |-> "", tvshowdbid_label |-> <<>>,
     total_time |-> PlayerTotalTime, time |-> 42, reply |-> GoodReply]

\* ------------------------------------------------ label and list item
\* truthiness of an Optional[str]
str_truthy(x) == x # None /\ x # ""

\* os.path.basename: what follows the last "/" (a locator is kept as the
\* pieces its "/" separate; None and '' are both <<>>)
basename(path) == IF path = <<>> THEN "" ELSE path[Len(path)]

\* "os.path.basename(self.path) if self.path else None"
basename_or_none(path) == IF path # <<>> THEN basename(path) ELSE None

\* a or b
or_str(a, b) == IF str_truthy(a) THEN a ELSE b

\* f"{n:02d}"
format_02d(n) ==
    IF n >= 0 /\ n < 10 THEN "0" \o ToString(n) ELSE ToString(n)

\* the label that prefers the label field to the title
base_label_label_first(r) ==
    or_str(r.label, or_str(r.title, or_str(r.channelname,
        or_str(basename_or_none(r.path), "Unknown"))))

\* first line of pluginlabel
base_label(r) ==
    or_str(r.title, or_str(r.label, or_str(r.channelname,
        or_str(basename_or_none(r.path), "Unknown"))))

\* "self.season is not None and self.season >= 0"
not_negative(x) == x # NoInt /\ x[1] >= 0

\* Playback.pluginlabel
pluginlabel(r) ==
    LET label == base_label(r)
        tail == " - " \o or_str(r.title, label)
        shown ==
            IF str_truthy(r.showtitle)
            THEN IF not_negative(r.season) /\ not_negative(r.episode)
                 THEN r.showtitle \o " (" \o ToString(r.season[1]) \o "x"
                          \o format_02d(r.episode[1]) \o ")" \o tail
                 ELSE IF not_negative(r.season)
                 THEN r.showtitle \o " (" \o ToString(r.season[1]) \o "x?)"
                          \o tail
                 ELSE r.showtitle \o tail
            ELSE IF str_truthy(r.channelname)
            THEN IF r.source = "pvr_live"
                 THEN r.channelname \o " (PVR Live)"
                 ELSE label \o " (PVR Recording " \o r.channelname \o ")"
            ELSE label
    IN IF r.source = "addon" THEN shown \o " (Addon)" ELSE shown

\* "x or 0.0"
or_zero(x) == IF truthy(x) THEN x[1] ELSE 0

\* the path handed to xbmcgui.ListItem, were it always self.file
item_path_file_only(r) == r.file

\* the path handed to xbmcgui.ListItem
item_path(r) ==
    IF r.source \notin {"addon", "pvr_live"} THEN r.file ELSE r.path

\* Playback.create_list_item_from_playback: the ListItem's label, path and
\* IsPlayable property, what tag.set_info and tag.set_resume_point were given
\* (<<>> when they were not called). Artwork is not carried.
create_list_item_from_playback(r) ==
    LET live == r.source = "pvr_live"
    IN [label |-> pluginlabel(r),
        path |-> item_path(r),
        IsPlayable |-> "true",
        infolabels |->
            IF live THEN <<>>
            ELSE <<[title |-> r.title, path |-> r.path,
                    tvshowtitle |-> r.showtitle, episode |-> r.episode,
                    season |-> r.season]>>,
        resume_point |->
            IF live THEN <<>>
            ELSE <<[ResumeTime |-> or_zero(r.resumetime),
                    TotalTime |-> or_zero(r.totaltime)]>>]

\* the records whose label and list item are asked for
LabelTitles == {None, "", "Bar"}
LabelLabels == {None, "Lbl"}
ChannelNames == {None, "Ch"}
LabelPaths == { <<>>, <<"dir", "movie.mkv">>, <<"dir", "">> }
LabelShowTitles == {None, "Foo"}
Seasons == { NoInt, <<0 - 1>>, <<2>> }
Episodes == { NoInt, <<0 - 1>>, <<3>>, <<12>> }
Sources == {None, "kodi_library", "pvr_live", "pvr_recording", "addon", "file"}
Files == { <<>>, <<"f", "movie.mkv">> }
ResumeTimes == { NoInt, <<42>> }
TotalTimes == { NoInt, <<PlayerTotalTime>> }
LabelRecords ==
    [title : LabelTitles, label : LabelLabels, channelname : ChannelNames,
     path : LabelPaths, showtitle : LabelShowTitles, season : Seasons,
     episode : Episodes, source : Sources, file : Files,
     resumetime : ResumeTimes, totaltime : TotalTimes]
NoRecord == CHOOSE r \in LabelRecords : TRUE
NoEntry == [kind |-> "none"]

\* --------------------------------------------------------- two savers
\* two callers, each holding its own PlaybackList on the same file
Callers == {1, 2}
Other(c) == 3 - c

\* names NamedTemporaryFile may give, and a name no file has
TempNames == {"tmpA", "tmpB"}
NoFile == [exists |-> FALSE, data |-> <<>>]

\* a name given to every temporary file, whether or not a file has it
fresh_names_fixed(ts) == {"tmpA"}

\* NamedTemporaryFile creates a file under a name no file has
fresh_names(ts) == {n \in TempNames : ~ts[n].exists}

\* a piece written through a file object at its own offset; what lies
\* between the end of the file and the offset reads as NUL
NUL == [k |-> "nul", d |-> NoPairs]
write_at(data, offset, piece) ==
    [i \in 1..(IF Len(data) > offset THEN Len(data) ELSE offset + 1) |->
        IF i = offset + 1 THEN piece
        ELSE IF i <= Len(data) THEN data[i] ELSE NUL]

\* the lists the two callers may hold
SaverPlaybacks == {p \in Playbacks : p.title = "t1"}
SaverLists == UNION {[1..n -> SaverPlaybacks] : n \in 0..MaxLen}

\* ---------------------------------------------------------------- state
VARIABLES
    list,           \* PlaybackList.list
    dir_exists,     \* os.path.dirname(self.file) exists on disk
    file_exists,    \* self.file exists on disk
    file_data,      \* its contents (tokens), <<>> when absent or empty
    temp_exists,    \* the NamedTemporaryFile of the running save exists
    temp_data,      \* its contents on disk
    temp_dir,       \* the directory it was created in
    alive,          \* FALSE once the process was interrupted
    pc,             \* position of the caller inside the running operation
    op,             \* the running operation, or the last one when idle
    arg,            \* its path argument (None when it has none)
    prev_op,        \* the operation completed before op
    prev_arg,       \* and its path argument
    pre_list,       \* list when op began
    pre_file_exists, \* file_exists when op began
    pre_file_data,  \* file_data when op began
    result,         \* return value of find_playback_by_path
    raised,         \* exception that ended op, "none" otherwise
    pb,             \* the Playback record being filled in
    signals,        \* what the host's player and info labels report
    enriched,       \* update_playback_details has run on pb under signals
    enrich_exc,     \* exception that ended it, "none" otherwise
    rec,            \* a Playback record whose label or list item is asked for
    entry,          \* what pluginlabel / create_list_item_from_playback gave
    s_list,         \* two callers, each with its own PlaybackList.list
    s_pc,           \* position of each caller inside its save_to_file
    s_temp,         \* name of the temporary file each caller created
    s_written,      \* pieces of its serialization each caller has written
    temps,          \* the temporary files, by name
    renamed         \* callers in the order of their os.replace

vars == <<list, dir_exists, file_exists, file_data, temp_exists, temp_data,
          temp_dir, alive, pc, op, arg, prev_op, prev_arg, pre_list,
          pre_file_exists, pre_file_data, result, raised, pb, signals, enriched,
          enrich_exc, rec, entry, s_list, s_pc, s_temp, s_written, temps,
          renamed>>

store_vars == <<list, dir_exists, file_exists, file_data, temp_exists,
                temp_data, temp_dir, alive, pc, op, arg, prev_op, prev_arg,
                pre_list, pre_file_exists, pre_file_data, result, raised>>
enrich_vars == <<pb, signals, enriched, enrich_exc>>
label_vars == <<rec, entry>>
saver_vars == <<s_list, s_pc, s_temp, s_written, temps, renamed>>
not_store == <<enrich_vars, label_vars, saver_vars>>
not_enrich == <<store_vars, label_vars, saver_vars>>

disk == <<dir_exists, file_exists, file_data>>
temp == <<temp_exists, temp_data, temp_dir>>

\* files the list may find on disk when it is constructed (besides none): a
\* JSON object, a truncated array, an array with an object lacking a key, an
\* array with a number in it, an array with an object of an unknown key
P(path, title) == [path |-> path, title |-> title]
InitFiles ==
    { <<Obj([path |-> "p1"])>>,
      <<LB, dumps_playback(P("p2", None))>>,
      <<LB, Obj([path |-> "p2"]), COMMA, dumps_playback(P("p2", "t1")), RB>>,
      <<LB, dumps_playback(P("p2", "t1")), COMMA, NUM, RB>>,
      <<LB, dumps_playback(P("p1", None)), COMMA,
            Obj([path |-> "p2", bogus |-> "x"]), RB>> }

NoEnrich ==
    /\ pb = fresh_playback
    /\ signals = NoSignals
    /\ enriched = FALSE
    /\ enrich_exc = "none"

\* no label or list item asked for; no second caller
NoLabel ==
    /\ rec = NoRecord
    /\ entry = NoEntry
NoSavers ==
    /\ s_list = [c \in Callers |-> <<>>]
    /\ s_pc = [c \in Callers |-> "idle"]
    /\ s_temp = [c \in Callers |-> ""]
    /\ s_written = [c \in Callers |-> 0]
    /\ temps = [n \in TempNames |-> NoFile]
    /\ renamed = <<>>

\* PlaybackList([], file)
Init ==
    /\ NoEnrich
    /\ NoLabel
    /\ NoSavers
    /\ list = <<>>
    /\ dir_exists \in BOOLEAN
    /\ file_exists \in BOOLEAN
    /\ file_exists => dir_exists
    /\ file_data \in InitFiles \cup {<<>>}
    /\ file_exists <=> file_data # <<>>
    /\ temp_exists = FALSE
    /\ temp_data = <<>>
    /\ temp_dir = ""
    /\ alive = TRUE
    /\ pc = "idle"
    /\ op = "none"
    /\ arg = None
    /\ prev_op = "none"
    /\ prev_arg = None
    /\ pre_list = <<>>
    /\ pre_file_exists = file_exists
    /\ pre_file_data = file_data
    /\ result = <<>>
    /\ raised = "none"

Idle == alive /\ pc = "idle"

\* bookkeeping at the call of an operation
Begin(o, a, exc) ==
    /\ Idle
    /\ op' = o
    /\ arg' = a
    /\ prev_op' = op
    /\ prev_arg' = arg
    /\ pre_list' = list
    /\ pre_file_exists' = file_exists
    /\ pre_file_data' = file_data
    /\ raised' = exc
    /\ result' = <<>>
    /\ UNCHANGED not_store

Running == UNCHANGED <<op, arg, prev_op, prev_arg, pre_list, pre_file_exists,
                       pre_file_data, alive, result, raised, not_store>>

\* ------------------------------------------------------------ operations
\* the caller adds a Playback with the standard list methods
append(p) ==
    /\ Len(list) < MaxLen
    /\ Begin("append", p.path, "none")
    /\ list' = Append(list, p)
    /\ UNCHANGED <<disk, temp, alive, pc>>

\* init(), first statement and mkdirs
init_start ==
    /\ alive /\ pc = "init_start"
    /\ list' = <<>>
    /\ dir_exists' = TRUE
    /\ pc' = "init_open"
    /\ Running
    /\ UNCHANGED <<file_exists, file_data, temp>>

\* init(): open(self.file, 'w') creates or truncates the file
init_open ==
    /\ alive /\ pc = "init_open"
    /\ file_exists' = TRUE
    /\ file_data' = <<>>
    /\ pc' = "init_write"
    /\ Running
    /\ UNCHANGED <<list, dir_exists, temp>>

\* init(): write('[]') and close
init_write ==
    /\ alive /\ pc = "init_write"
    /\ file_data' = <<LB, RB>>
    /\ pc' = "idle"
    /\ Running
    /\ UNCHANGED <<list, dir_exists, file_exists, temp>>

init ==
    /\ Begin("init", None, "none")
    /\ pc' = "init_start"
    /\ UNCHANGED <<list, disk, temp, alive>>

\* load_or_init up to the call of init() or the end of the loop
load_or_init ==
    LET l0 == cleared(list)
        j == json_load(file_data)
    IN IF needs_init(file_exists, j)
       THEN /\ Begin("load", None, "none")
            /\ list' = l0
            /\ pc' = "init_start"
            /\ UNCHANGED <<disk, temp, alive>>
       ELSE /\ Begin("load", None,
                     IF loop_raises(j.elems) THEN "TypeError" ELSE "none")
            /\ list' = appended(l0, j.elems)
            /\ UNCHANGED <<disk, temp, alive, pc>>

\* save_to_file: xbmcvfs.mkdirs(directory_name)
save_to_file ==
    /\ Begin("save", None, "none")
    /\ dir_exists' = TRUE
    /\ pc' = "save_temp"
    /\ UNCHANGED <<list, file_exists, file_data, temp, alive>>

\* save_to_file: NamedTemporaryFile('w', delete=False, dir=temp_dir)
save_temp_in_place ==
    /\ alive /\ pc = "save_temp"
    /\ file_exists' = TRUE
    /\ file_data' = <<>>
    /\ temp_exists' = TRUE
    /\ temp_data' = <<>>
    /\ temp_dir' = temp_dir_of(directory_name)
    /\ pc' = "save_write"
    /\ Running
    /\ UNCHANGED <<list, dir_exists>>

save_temp ==
    /\ alive /\ pc = "save_temp"
    /\ temp_exists' = TRUE
    /\ temp_data' = <<>>
    /\ temp_dir' = temp_dir_of(directory_name)
    /\ pc' = "save_write"
    /\ Running
    /\ UNCHANGED <<list, disk>>

\* save_to_file: temp_file.write(self.toJson()) reaching the disk piece by
\* piece, the last piece at the close of the with block
save_write ==
    /\ alive /\ pc = "save_write"
    /\ LET text == toJson(list)
       IN /\ temp_data' = SubSeq(text, 1, Len(temp_data) + 1)
          /\ pc' = IF Len(temp_data) + 1 = Len(text) THEN "save_replace"
                   ELSE "save_write"
    /\ Running
    /\ UNCHANGED <<list, disk, temp_exists, temp_dir>>

\* save_to_file: os.replace(temporary_name, self.file)
save_replace ==
    /\ alive /\ pc = "save_replace"
    /\ file_exists' = TRUE
    /\ file_data' = temp_data
    /\ temp_exists' = FALSE
    /\ temp_data' = <<>>
    /\ pc' = "idle"
    /\ Running
    /\ UNCHANGED <<list, dir_exists, temp_dir>>

\* delete_file
delete_file_clearing ==
    /\ Begin("delete", None, "none")
    /\ IF file_exists
       THEN file_exists' = FALSE /\ file_data' = <<>>
       ELSE UNCHANGED <<file_exists, file_data>>
    /\ list' = <<>>
    /\ UNCHANGED <<dir_exists, temp, alive, pc>>

delete_file ==
    /\ Begin("delete", None, "none")
    /\ IF file_exists
       THEN file_exists' = FALSE /\ file_data' = <<>>
       ELSE UNCHANGED <<file_exists, file_data>>
    /\ UNCHANGED <<list, dir_exists, temp, alive, pc>>

remove(path) ==
    /\ Begin("remove", path, "none")
    /\ list' = remove_playbacks_of_path(list, path)
    /\ UNCHANGED <<disk, temp, alive, pc>>

find(path) ==
    /\ Idle
    /\ op' = "find"
    /\ arg' = path
    /\ prev_op' = op
    /\ prev_arg' = arg
    /\ pre_list' = list
    /\ pre_file_exists' = file_exists
    /\ pre_file_data' = file_data
    /\ raised' = "none"
    /\ result' = find_playback_by_path(list, path)
    /\ UNCHANGED <<list, disk, temp, alive, pc, not_store>>

\* the process is interrupted inside an operation; what is on disk stays as
\* it is
Crash ==
    /\ alive /\ pc # "idle"
    /\ alive' = FALSE
    /\ UNCHANGED <<list, disk, temp, pc, op, arg, prev_op, prev_arg,
                   pre_list, pre_file_exists, pre_file_data, result, raised,
                   not_store>>

\* the service starts again: PlaybackList([], file)
Restart ==
    /\ ~alive
    /\ alive' = TRUE
    /\ list' = <<>>
    /\ pc' = "idle"
    /\ op' = "none"
    /\ arg' = None
    /\ prev_op' = "none"
    /\ prev_arg' = None
    /\ pre_list' = <<>>
    /\ pre_file_exists' = file_exists
    /\ pre_file_data' = file_data
    /\ result' = <<>>
    /\ raised' = "none"
    /\ temp_exists' = FALSE
    /\ temp_data' = <<>>
    /\ temp_dir' = ""
    /\ UNCHANGED <<disk, not_store>>

Next ==
    \/ \E p \in Playbacks : append(p)
    \/ init
    \/ init_start
    \/ init_open
    \/ init_write
    \/ load_or_init
    \/ save_to_file
    \/ save_temp
    \/ save_write
    \/ save_replace
    \/ delete_file
    \/ \E path \in Paths \cup {None} : remove(path)
    \/ \E path \in Paths \cup {None} : find(path)
    \/ Crash
    \/ Restart

Spec == Init /\ [][Next]_vars

\* ------------------------------------------------------------ enrichment
\* no list and no file: only a Playback record and the host's signals
NoStore ==
    /\ list = <<>>
    /\ dir_exists = FALSE
    /\ file_exists = FALSE
    /\ file_data = <<>>
    /\ temp_exists = FALSE
    /\ temp_data = <<>>
    /\ temp_dir = ""
    /\ alive = TRUE
    /\ pc = "idle"
    /\ op = "none"
    /\ arg = None
    /\ prev_op = "none"
    /\ prev_arg = None
    /\ pre_list = <<>>
    /\ pre_file_exists = FALSE
    /\ pre_file_data = <<>>
    /\ result = <<>>
    /\ raised = "none"

InitEnrich ==
    /\ NoEnrich
    /\ NoLabel
    /\ NoSavers
    /\ NoStore

\* playback = Playback()
new_record ==
    /\ pb' = fresh_playback
    /\ enriched' = FALSE
    /\ enrich_exc' = "none"
    /\ UNCHANGED <<signals, not_enrich>>

\* the host's player and info labels change (one of them at a time)
host_set(f, v) ==
    /\ signals[f] # v
    /\ signals' = [signals EXCEPT ![f] = v]
    /\ enriched' = FALSE
    /\ enrich_exc' = "none"
    /\ UNCHANGED <<pb, not_enrich>>

host_change ==
    \/ \E v \in ItemPaths : host_set("item_path", v)
    \/ \E v \in DbidLabels : host_set("dbid_label", v)
    \/ \E v \in BOOLEAN : host_set("playing_tv", v)
    \/ \E v \in BOOLEAN : host_set("playing_radio", v)
    \/ \E v \in ListItemPaths : host_set("listitem_path", v)
    \/ \E v \in AddonIds : host_set("addon_id", v)
    \/ \E v \in ContainerPaths : host_set("container_path", v)
    \/ \E v \in ShowTitles : host_set("tvshowtitle", v)
    \/ \E v \in ShowDbidLabels : host_set("tvshowdbid_label", v)

\* playback.update_playback_details(item) under the host's current signals
enrich ==
    /\ pb' = update_playback_details(pb, signals)
    /\ enriched' = TRUE
    /\ enrich_exc' = update_raises(pb, signals)
    /\ UNCHANGED <<signals, not_enrich>>

NextEnrich ==
    \/ new_record
    \/ host_change
    \/ enrich

SpecEnrich == InitEnrich /\ [][NextEnrich]_vars

\* ------------------------------------------------------- seasons lookup
\* the show's labels and the metadata service's answer change
seasons_change ==
    \/ \E v \in ShowTitles : host_set("tvshowtitle", v)
    \/ \E v \in ShowDbidLabels : host_set("tvshowdbid_label", v)
    \/ \E v \in Replies : host_set("reply", v)

NextSeasons ==
    \/ new_record
    \/ seasons_change
    \/ enrich

SpecSeasons == InitEnrich /\ [][NextSeasons]_vars

\* ------------------------------------------------ label and list item
not_label == <<store_vars, enrich_vars, saver_vars>>

\* any Playback record, nothing asked of it yet
InitLabel ==
    /\ NoStore
    /\ NoEnrich
    /\ NoSavers
    /\ rec \in LabelRecords
    /\ entry = NoEntry

\* playback.pluginlabel
get_pluginlabel ==
    /\ entry' = [kind |-> "label", of |-> rec, label |-> pluginlabel(rec)]
    /\ UNCHANGED <<rec, not_label>>

\* playback.create_list_item_from_playback()
create_list_item ==
    /\ entry' = [kind |-> "item", of |-> rec,
                 item |-> create_list_item_from_playback(rec)]
    /\ UNCHANGED <<rec, not_label>>

NextLabel ==
    \/ get_pluginlabel
    \/ create_list_item

SpecLabel == InitLabel /\ [][NextLabel]_vars

\* --------------------------------------------------------- two savers
store_rest == <<list, temp, alive, pc, op, arg, prev_op, prev_arg, pre_list,
                pre_file_exists, pre_file_data, result, raised>>
not_saver == <<store_rest, enrich_vars, label_vars>>

\* each caller holds a list of its own; the file is absent or holds the
\* serialization of an earlier list
InitSavers ==
    /\ NoEnrich
    /\ NoLabel
    /\ list = <<>>
    /\ temp_exists = FALSE
    /\ temp_data = <<>>
    /\ temp_dir = ""
    /\ alive = TRUE
    /\ pc = "idle"
    /\ op = "none"
    /\ arg = None
    /\ prev_op = "none"
    /\ prev_arg = None
    /\ pre_list = <<>>
    /\ result = <<>>
    /\ raised = "none"
    /\ file_exists \in BOOLEAN
    /\ dir_exists = file_exists
    /\ file_data = IF file_exists
                   THEN toJson(<<[path |-> "p1", title |-> None]>>) ELSE <<>>
    /\ pre_file_exists = file_exists
    /\ pre_file_data = file_data
    /\ s_list \in [Callers -> SaverLists]
    /\ s_pc = [c \in Callers |-> "idle"]
    /\ s_temp = [c \in Callers |-> ""]
    /\ s_written = [c \in Callers |-> 0]
    /\ temps = [n \in TempNames |-> NoFile]
    /\ renamed = <<>>

\* caller c: save_to_file up to xbmcvfs.mkdirs(directory_name)
s_save_to_file(c) ==
    /\ s_pc[c] = "idle"
    /\ dir_exists' = TRUE
    /\ s_pc' = [s_pc EXCEPT ![c] = "save_temp"]
    /\ UNCHANGED <<file_exists, file_data, s_list, s_temp, s_written, temps,
                   renamed, not_saver>>

\* caller c: NamedTemporaryFile('w', delete=False, dir=temp_dir)
s_save_temp(c) ==
    /\ s_pc[c] = "save_temp"
    /\ \E n \in fresh_names(temps) :
          /\ temps' = [temps EXCEPT ![n] = [exists |-> TRUE, data |-> <<>>]]
          /\ s_temp' = [s_temp EXCEPT ![c] = n]
    /\ s_written' = [s_written EXCEPT ![c] = 0]
    /\ s_pc' = [s_pc EXCEPT ![c] = "save_write"]
    /\ UNCHANGED <<disk, s_list, renamed, not_saver>>

\* caller c: temp_file.write(self.toJson()), one piece reaching the file
s_save_write(c) ==
    /\ s_pc[c] = "save_write"
    /\ temps[s_temp[c]].exists
    /\ LET text == toJson(s_list[c])
           piece == text[s_written[c] + 1]
       IN /\ temps' = [temps EXCEPT ![s_temp[c]].data =
                          write_at(@, s_written[c], piece)]
          /\ s_written' = [s_written EXCEPT ![c] = @ + 1]
          /\ s_pc' = [s_pc EXCEPT ![c] =
                         IF s_written[c] + 1 = Len(text) THEN "save_replace"
                         ELSE "save_write"]
    /\ UNCHANGED <<disk, s_list, s_temp, renamed, not_saver>>

\* caller c: os.replace(temporary_name, self.file)
s_save_replace(c) ==
    /\ s_pc[c] = "save_replace"
    /\ temps[s_temp[c]].exists
    /\ file_exists' = TRUE
    /\ file_data' = temps[s_temp[c]].data
    /\ temps' = [temps EXCEPT ![s_temp[c]] = NoFile]
    /\ renamed' = Append(renamed, [caller |-> c, other |-> s_pc[Other(c)]])
    /\ s_pc' = [s_pc EXCEPT ![c] = "done"]
    /\ UNCHANGED <<dir_exists, s_list, s_temp, s_written, not_saver>>

NextSavers ==
    \E c \in Callers :
        \/ s_save_to_file(c)
        \/ s_save_temp(c)
        \/ s_save_write(c)
        \/ s_save_replace(c)

SpecSavers == InitSavers /\ [][NextSavers]_vars

\* ---------------------------------------------------------------- claims
Completed(o) == pc = "idle" /\ op = o
FileUntouched == file_exists = pre_file_exists /\ file_data = pre_file_data
ValidArrayFile(exists, data) == exists /\ json_load(data).kind = "array"

\* C1: while save() has not yet renamed the temporary file (process
\* interrupted or not), the backing file holds exactly what it held when
\* save() was called and the temporary file lies in the backing file's
\* directory; the rename happens only once the temporary file holds the full
\* serialization, and after it the backing file holds exactly the
\* serialization of the list that was saved.
SaveCrashSafe ==
    /\ (op = "save" /\ pc \in {"save_temp", "save_write", "save_replace"})
         => /\ FileUntouched
            /\ temp_exists => temp_dir = directory_name
    /\ (op = "save" /\ pc = "save_replace") => temp_data = toJson(list)
    /\ Completed("save") => file_exists /\ file_data = toJson(pre_list)

\* the process was interrupted inside save() with the temporary file half
\* written, over a backing file holding another, complete list
SaveCrashSafeWitness ==
    /\ ~alive
    /\ op = "save" /\ pc = "save_write"
    /\ temp_exists /\ Len(temp_data) >= 2
    /\ ValidArrayFile(file_exists, file_data)
    /\ Len(file_data) > 2
    /\ file_data # toJson(list)

\* C2: no step of init(), loadOrInit(), save(), removeByPath() or delete(),
\* and no interruption of one, takes the backing file from absent or a valid
\* JSON array to an existing file that is not a complete JSON array.
FileStaysValid ==
    [][(~file_exists \/ ValidArrayFile(file_exists, file_data))
         => (~file_exists' \/ ValidArrayFile(file_exists', file_data'))]_vars

LoadedField(t, f) ==
    IF f \in DOMAIN t.d /\ t.d[f] # JsonNull THEN t.d[f] ELSE None

RemoveThenFind ==
    (Completed("find") /\ prev_op = "remove" /\ prev_arg = arg)
        => result = <<>>

\* findByPath(p) ran right after removeByPath(p), on a list that still holds
\* records of another path
RemoveThenFindWitness ==
    /\ Completed("find") /\ prev_op = "remove" /\ prev_arg = arg
    /\ arg \in Paths
    /\ list # <<>>

KeptPositions(l, path) == {i \in 1..Len(l) : l[i].path # path}

\* C6: removeByPath(path) leaves exactly the records with another path, in
\* their original order, and does not touch the backing file.
RemoveFrame ==
    Completed("remove") =>
        /\ \A i \in 1..Len(list) : list[i].path # arg
        /\ Len(list) = Cardinality(KeptPositions(pre_list, arg))
        /\ \A i \in KeptPositions(pre_list, arg) :
              list[Cardinality({j \in KeptPositions(pre_list, arg) : j <= i})]
                 = pre_list[i]
        /\ FileUntouched

\* a removal that took one record and kept another
RemoveFrameWitness ==
    /\ Completed("remove")
    /\ Len(pre_list) >= 2
    /\ Len(list) >= 1
    /\ Len(list) < Len(pre_list)

\* C7: findByPath(path) returns the first record in list order with that
\* path, not-found exactly when there is none, and changes neither the list
\* nor the file.
FindFirst ==
    Completed("find") =>
        LET hits == {i \in 1..Len(pre_list) : pre_list[i].path = arg}
        IN /\ (hits = {}) <=> (result = <<>>)
           /\ hits # {} =>
                \E i \in hits : /\ \A j \in hits : i <= j
                                /\ result = <<pre_list[i]>>
           /\ list = pre_list
           /\ FileUntouched

\* a find on a list holding two different records of the path asked for
FindFirstWitness ==
    /\ Completed("find")
    /\ \E i, j \in 1..Len(list) :
          /\ i < j
          /\ list[i].path = arg /\ list[j].path = arg
          /\ list[i] # list[j]
    /\ result # <<>>

DeleteFrame ==
    /\ Completed("delete")
         => /\ ~file_exists
            /\ raised = "none"
            /\ list = pre_list
    /\ (Completed("save") /\ prev_op = "delete")
         => /\ file_exists
            /\ json_load(file_data).kind = "array"
            /\ Len(json_load(file_data).elems) = Len(list)
            /\ \A i \in 1..Len(list) : \A f \in Fields :
                  LoadedField(json_load(file_data).elems[i], f) = list[i][f]

\* records were in memory when delete() ran, and the save() after it wrote
\* them
DeleteFrameWitness ==
    /\ Completed("save") /\ prev_op = "delete"
    /\ list # <<>>
    /\ file_exists

\* the source the stated priority order gives under the signals sig: a
\* resolved dbid first, then live TV or radio, then the recordings prefix,
\* then the addon heuristic, then file
StatedSource(sig) ==
    IF int_or_none(sig.dbid_label) # NoInt THEN "kodi_library"
    ELSE IF sig.playing_tv \/ sig.playing_radio THEN "pvr_live"
    ELSE IF startswith(lower(sig.item_path), RecordingsPrefix)
         THEN "pvr_recording"
    ELSE IF is_addon_playback(sig.item_path, sig) THEN "addon"
    ELSE "file"

\* C10: after update_playback_details the source is the one the priority
\* order library > live > recording > addon > file gives for the signals,
\* a dbid being present whenever the DBID label resolves to an integer.
SourceByPriority ==
    enriched =>
        /\ pb.source = StatedSource(signals)
        /\ pb.source \in {"kodi_library", "pvr_live", "pvr_recording",
                          "addon", "file"}

\* C11: after update_playback_details, a record whose source is pvr_live has
\* no totaltime and no resumetime.
LiveHasNoTiming ==
    (enriched /\ pb.source = "pvr_live")
        => pb.totaltime = NoInt /\ pb.resumetime = NoInt

\* C12: whatever enrichments a record went through, a record with a
\* tvshowdbid has type episode.
ShowDbidMeansEpisode ==
    pb.tvshowdbid # NoInt => pb.type = "episode"

\* what the seasons lookup is stated to leave in totalseasons: null for an
\* undecoded reply, a reply without result, an error object, a result or
\* limits of the wrong shape; else limits.total, else the number of entries
StatedSeasons(reply) ==
    IF \/ ~reply.parses
       \/ ~reply.has_result
       \/ reply.has_error
       \/ reply.result.kind # "dict"
       \/ reply.result.limits = "null"
    THEN NoInt
    ELSE IF reply.result.limits = "dict" /\ reply.result.total_kind = "int"
         THEN <<reply.result.total>>
         ELSE reply.result.seasons

\* C13: an enrichment that finds tvshowdbid set does not raise, and leaves
\* totalseasons null when the lookup fails or its result is malformed, and
\* limits.total (or the number of season entries) otherwise.
SeasonsLookupSafe ==
    (enriched /\ truthy(pb.tvshowdbid))
        => /\ enrich_exc = "none"
           /\ pb.totalseasons = StatedSeasons(signals.reply)

\* the stated precedence: the first of title, label, channelname and final
\* path segment that is set, else "Unknown"
StatedBase(r) ==
    CASE str_truthy(r.title) -> r.title
      [] ~str_truthy(r.title) /\ str_truthy(r.label) -> r.label
      [] ~str_truthy(r.title) /\ ~str_truthy(r.label)
            /\ str_truthy(r.channelname) -> r.channelname
      [] OTHER -> IF r.path # <<>> /\ r.path[Len(r.path)] # ""
                  THEN r.path[Len(r.path)] ELSE "Unknown"

\* a number >= 0 in at least two digits
TwoDigits(n) == ToString(n \div 10) \o ToString(n % 10)

Known(x) == x # NoInt /\ x[1] >= 0

StatedLabel(r) ==
    LET base == StatedBase(r)
        produced ==
            CASE str_truthy(r.showtitle) /\ Known(r.season) /\ Known(r.episode)
                   -> r.showtitle \o " (" \o ToString(r.season[1]) \o "x"
                        \o TwoDigits(r.episode[1]) \o ") - " \o base
              [] str_truthy(r.showtitle) /\ Known(r.season)
                     /\ ~Known(r.episode)
                   -> r.showtitle \o " (" \o ToString(r.season[1])
                        \o "x?) - " \o base
              [] str_truthy(r.showtitle) /\ ~Known(r.season)
                   -> r.showtitle \o " - " \o base
              [] ~str_truthy(r.showtitle) /\ str_truthy(r.channelname)
                     /\ r.source = "pvr_live"
                   -> r.channelname \o " (PVR Live)"
              [] ~str_truthy(r.showtitle) /\ str_truthy(r.channelname)
                     /\ r.source # "pvr_live"
                   -> base \o " (PVR Recording " \o r.channelname \o ")"
              [] OTHER -> base
    IN produced \o (IF r.source = "addon" THEN " (Addon)" ELSE "")

\* C14: pluginlabel gives the label of the stated precedence for every
\* combination of title, label, channelname, path, showtitle, season, episode
\* and source, and the record it was asked of is as it was.
LabelPrecedence ==
    entry.kind = "label"
        => /\ entry.label = StatedLabel(rec)
           /\ entry.of = rec

\* an episode with title, season and a one-digit episode number
LabelPrecedenceWitness ==
    /\ entry.kind = "label"
    /\ rec.showtitle = "Foo" /\ rec.title = "Bar" /\ rec.label = "Lbl"
    /\ rec.season = <<2>> /\ rec.episode = <<3>> /\ rec.source = "addon"
    /\ entry.label = "Foo (2x03) - Bar (Addon)"

\* C15: the list item's path is the record's file for the sources
\* kodi_library, file and pvr_recording and the record's path for addon and
\* pvr_live; a pvr_live item gets no info labels and no resume point; any
\* other item gets a resume point whose ResumeTime and TotalTime are the
\* record's resumetime and totaltime, 0 where the record has none.
ListItemBySource ==
    entry.kind = "item"
        => LET item == entry.item IN
           /\ rec.source \in {"kodi_library", "file", "pvr_recording"}
                => item.path = rec.file
           /\ rec.source \in {"addon", "pvr_live"} => item.path = rec.path
           /\ rec.source = "pvr_live"
                => item.infolabels = <<>> /\ item.resume_point = <<>>
           /\ rec.source # "pvr_live"
                => /\ Len(item.infolabels) = 1
                   /\ Len(item.resume_point) = 1
                   /\ item.resume_point[1].ResumeTime =
                        (IF rec.resumetime = NoInt THEN 0
                         ELSE rec.resumetime[1])
                   /\ item.resume_point[1].TotalTime =
                        (IF rec.totaltime = NoInt THEN 0
                         ELSE rec.totaltime[1])

\* a recording without times, whose file and path differ
ListItemBySourceWitness ==
    /\ entry.kind = "item"
    /\ rec.source = "pvr_recording"
    /\ rec.file # rec.path /\ rec.file # <<>> /\ rec.path # <<>>
    /\ rec.resumetime = NoInt /\ rec.totaltime = <<PlayerTotalTime>>
    /\ entry.item.resume_point = <<[ResumeTime |-> 0,
                                    TotalTime |-> PlayerTotalTime]>>

\* load_or_init has run on a file holding a JSON array one of whose elements
\* is not an object, or is an object with a key that is no field
LoadedBadElement ==
    /\ Completed("load")
    /\ ValidArrayFile(pre_file_exists, pre_file_data)
    /\ \E i \in 1..Len(json_load(pre_file_data).elems) :
          ~Constructible(json_load(pre_file_data).elems[i])

InterleavedSaves ==
    /\ \/ FileUntouched
       \/ /\ file_exists
          /\ \E c \in Callers : file_data = toJson(s_list[c])
    /\ (\A c \in Callers : s_pc[c] = "done")
          => /\ file_exists
             /\ file_data = toJson(s_list[renamed[Len(renamed)].caller])

\* both have finished, with different lists; when the first of them renamed,
\* the other had written a part of its temporary file
InterleavedSavesWitness ==
    /\ \A c \in Callers : s_pc[c] = "done"
    /\ toJson(s_list[1]) # toJson(s_list[2])
    /\ renamed[1].caller = 2
    /\ renamed[1].other = "save_write"
    /\ pre_file_exists
====
